---- MODULE Spec2Model ----
(***************************************************************************)
(* Model of book-to-kindle-bot (main.go): the bounded dispatcher of        *)
(* BookToKindleBot.Start, the per-update task (handleUpdate and the        *)
(* handlers it routes to), the delivery pipeline of handleDocument and     *)
(* the two tables of the SQLite store.                                     *)
(***************************************************************************)
EXTENDS Integers, Sequences, FiniteSets, TLC

(***************************************************************************)
(* Bounds of the model.                                                    *)
(***************************************************************************)
\* updates the event source delivers in one run
MaxUpdates == 2
\* largest BotConfig.MaxWorkers tried (Init draws MaxWorkers from 1..)
MaxWorkersTried == 2
\* attempts after which the exponential backoff policy gives up
MaxAttempts == 2

(***************************************************************************)
(* Program constants.                                                      *)
(***************************************************************************)
\* BotConfig.MaxFileSize, MaxFileSize
MaxFileSize == 20971520

supportedMimeTypes ==
    { "application/pdf", "application/epub+zip",
      "application/vnd.amazon.ebook", "application/x-mobipocket-ebook" }

(***************************************************************************)
(* Strings that the code inspects are sequences of characters.             *)
(***************************************************************************)
KindleSuffix == <<"@", "k", "i", "n", "d", "l", "e", ".", "c", "o", "m">>

ArgEmpty  == << >>
ArgPlain  == <<"a">> \o KindleSuffix
ArgPlain2 == <<"c">> \o KindleSuffix
ArgNamed  == <<"B", " ", "<", "b">> \o KindleSuffix \o <<">">>
ArgOther  == <<"a", "@", "x", ".", "c", "o", "m">>
ArgJunk   == <<"j", "u", "n", "k">>

\* argument strings of /set_kindle_email that the event source may deliver
Args == { ArgEmpty, ArgPlain, ArgPlain2, ArgNamed, ArgOther, ArgJunk }

\* strings.HasSuffix
HasSuffix(s, suffix) ==
    /\ Len(s) >= Len(suffix)
    /\ SubSeq(s, Len(s) - Len(suffix) + 1, Len(s)) = suffix

\* number of occurrences of character c in s
RECURSIVE Count(_, _)
Count(s, c) ==
    IF s = << >> THEN 0
    ELSE (IF Head(s) = c THEN 1 ELSE 0) + Count(Tail(s), c)

\* index of the first occurrence of c in s, 0 when there is none
RECURSIVE IndexOf(_, _)
IndexOf(s, c) ==
    IF s = << >> THEN 0
    ELSE IF Head(s) = c THEN 1
    ELSE LET i == IndexOf(Tail(s), c) IN IF i = 0 THEN 0 ELSE i + 1

\* leading and trailing white space removed
RECURSIVE TrimSpace(_)
TrimSpace(s) ==
    IF s = << >> THEN s
    ELSE IF Head(s) = " " THEN TrimSpace(Tail(s))
    ELSE IF s[Len(s)] = " " THEN TrimSpace(SubSeq(s, 1, Len(s) - 1))
    ELSE s

\* RFC 5322 addr-spec: local-part "@" domain, both non-empty, no specials
IsAddrSpec(s) ==
    /\ Count(s, "@") = 1
    /\ Count(s, " ") = 0 /\ Count(s, "<") = 0 /\ Count(s, ">") = 0
    /\ IndexOf(s, "@") > 1
    /\ IndexOf(s, "@") < Len(s)

\* mail.ParseAddress: a bare addr-spec, or display-name "<" addr-spec ">".
\* The result is [ok |-> BOOLEAN, Address |-> the addr-spec].
ParseAddress(email) ==
    LET s  == TrimSpace(email)
        lt == IndexOf(s, "<")
    IN  IF IsAddrSpec(s) THEN [ok |-> TRUE, Address |-> s]
        ELSE IF /\ lt > 0
                /\ s[Len(s)] = ">"
                /\ Count(s, "<") = 1 /\ Count(s, ">") = 1
                /\ Count(SubSeq(s, 1, lt - 1), "@") = 0
                /\ IsAddrSpec(SubSeq(s, lt + 1, Len(s) - 1))
             THEN [ok |-> TRUE, Address |-> SubSeq(s, lt + 1, Len(s) - 1)]
        ELSE [ok |-> FALSE, Address |-> << >>]


\* validateEmail: the suffix is tested on the parsed addr-spec, the string
\* returned is the argument as given.
validateEmail(email) ==
    LET address == ParseAddress(email)
    IN  IF ~address.ok
        THEN [err |-> "invalid email address: mail: parse error", email |-> << >>]
        ELSE IF ~HasSuffix(address.Address, KindleSuffix)
        THEN [err |-> "email address is not a kindle email address", email |-> << >>]
        ELSE [err |-> "nil", email |-> email]

(***************************************************************************)
(* Inbound updates (tgbotapi.Update). Message = FALSE is an update whose   *)
(* Message pointer is nil, From = NoFrom a message whose From is nil.      *)
(***************************************************************************)
Users == {1, 2}
NoFrom == 0

Update(msg, from, doc, mime, size, cmd, name, args) ==
    [Message |-> msg, From |-> from, Document |-> doc, MimeType |-> mime,
     FileSize |-> size, FileName |-> "book", IsCommand |-> cmd,
     Command |-> name, CommandArguments |-> args]

\* documents: every combination of mime type and declared size from user 1,
\* one acceptable document from user 2
DocumentUpdates ==
    { Update(TRUE, 1, TRUE, mime, size, FALSE, "", << >>) :
        mime \in {"application/epub+zip", "text/plain"},
        size \in {MaxFileSize, MaxFileSize + 1} }
      \cup { Update(TRUE, 2, TRUE, "application/pdf", MaxFileSize, FALSE, "", << >>) }

\* /set_kindle_email: every argument string from user 1, one from user 2
SetEmailUpdates ==
    { Update(TRUE, 1, FALSE, "", 0, TRUE, "set_kindle_email", args) : args \in Args }
      \cup { Update(TRUE, 2, FALSE, "", 0, TRUE, "set_kindle_email", ArgPlain) }

OtherCommandUpdates ==
    { Update(TRUE, 1, FALSE, "", 0, TRUE, "help", << >>) }

TextUpdate == Update(TRUE, 1, FALSE, "", 0, FALSE, "", << >>)
\* an update that is not a message (edited message, callback query, ...)
NoMessageUpdate == Update(FALSE, NoFrom, FALSE, "", 0, FALSE, "", << >>)
\* a document posted without a sender (channel post forwarded as message)
NoFromDocument == Update(TRUE, NoFrom, TRUE, "application/pdf", 1, FALSE, "", << >>)

Updates ==
    DocumentUpdates \cup SetEmailUpdates \cup OtherCommandUpdates
        \cup {TextUpdate, NoMessageUpdate, NoFromDocument}

\* lengths of the byte stream the file server may answer with
StreamLengths == {1, MaxFileSize + 1}

(***************************************************************************)
(* Notices: the fixed texts of sendMessage.                                *)
(***************************************************************************)
NoticeUnsupportedMessage == "Unsupported message type. Send me a PDF, EPUB, or MOBI file"
NoticeSetEmailFirst == "Please set your Kindle email address first using /set_kindle_email"
NoticeUnsupportedType == "Unsupported file type. Try sending a PDF, EPUB, or MOBI file"
NoticeTooLarge == "File is too large. Maximum file size is 20MB"
NoticeDownloading == "Downloading file..."
NoticeDownloadError == "Error downloading file, please try again later"
NoticeDownloaded == "Download successful. Sending file to Kindle..."
NoticeEmailError == "Error sending email, please try again later"
NoticeSent == "Book sent to Kindle successfully"
NoticeProvideEmail == "Please provide your Kindle email address"
NoticeSetEmailError == "Error setting Kindle email address, please try again later"
NoticeEmailSet == "Kindle email address set successfully"
NoticeUnknownCommand == "Unknown command, use /help for available commands"
NoticeHello == "Hello! Send me a PDF, EPUB, or MOBI file"

(***************************************************************************)
(* State.                                                                  *)
(***************************************************************************)
VARIABLES
    MaxWorkers,   \* BotConfig.MaxWorkers, the capacity of workerPool
    workerPool,   \* number of tokens in the buffered channel workerPool
    updates,      \* number of updates the source has delivered so far
    closed,       \* the channel updates has been closed by the source
    dispatcher,   \* position of the loop of Start
    update,       \* << >>, or <<u>>: the update Start has received
    ctxDone,      \* the context of Start has been cancelled
    process,      \* "running", "crashed" (unrecovered panic), "exited"
    users,        \* table users: set of rows
    sent_books,   \* table sent_books: sequence of rows, in insertion order
    tasks         \* the goroutines spawned by Start, in spawn order

vars == << MaxWorkers, workerPool, updates, closed, dispatcher, update, ctxDone,
           process, users, sent_books, tasks >>

NewTask(u) ==
    [update |-> u, pc |-> "handleUpdate", kindleEmail |-> << >>,
     fileBytes |-> 0, attempts |-> 0, fetchCalled |-> FALSE, dialed |-> FALSE,
     streamLength |-> 0, mail |-> << >>, notices |-> << >>,
     slog |-> << >>, released |-> 0, record |-> 0]

Init ==
    /\ MaxWorkers \in 1..MaxWorkersTried
    /\ workerPool = 0
    /\ updates = 0
    /\ closed = FALSE
    /\ dispatcher = "select"
    /\ update = << >>
    /\ ctxDone = FALSE
    /\ process = "running"
    /\ users = {}
    /\ sent_books = << >>
    /\ tasks = << >>

TaskIds == DOMAIN tasks

\* sendMessage(chatId, text) of task t
sendMessage(t, text) == [t EXCEPT !.notices = Append(@, text)]

\* slog.Error(msg, ...) of task t: the operators' log
slogError(t, msg) == [t EXCEPT !.slog = Append(@, msg)]

(***************************************************************************)
(* Record store.                                                           *)
(***************************************************************************)
\* GetKindleEmail: the rows SELECTed for telegramId
GetKindleEmail(telegramId) == { r \in users : r.telegram_id = telegramId }

\* variant: a plain INSERT, without the ON CONFLICT clause
SetKindleEmailInsert(telegramId, kindleEmail) ==
    users \cup { [telegram_id |-> telegramId, kindle_email |-> kindleEmail] }

\* SetKindleEmail: INSERT ... ON CONFLICT(telegram_id) DO UPDATE
SetKindleEmail(telegramId, kindleEmail) ==
    IF \E r \in users : r.telegram_id = telegramId
    THEN { IF r.telegram_id = telegramId
           THEN [r EXCEPT !.kindle_email = kindleEmail] ELSE r : r \in users }
    ELSE users \cup { [telegram_id |-> telegramId, kindle_email |-> kindleEmail] }

\* logSentBook: INSERT INTO sent_books, id AUTOINCREMENT
logSentBook(telegramId, bookName, fileSize) ==
    Append(sent_books,
           [id |-> Len(sent_books) + 1, telegram_id |-> telegramId,
            book_name |-> bookName, file_size |-> fileSize])

\* A statement run with a cancelled context fails; otherwise it may fail
\* for reasons of the store itself.
StoreOutcomes == IF ctxDone THEN {FALSE} ELSE BOOLEAN

(***************************************************************************)
(* Dispatcher: the loop of Start.                                          *)
(***************************************************************************)
\* variant: the send proceeds also on a full buffer
CanSendFull(len, cap) == len <= cap

\* a send on a buffered channel proceeds when the buffer is not full
CanSend(len, cap) == len < cap

\* case update := <-updates
Receive ==
    /\ process = "running"
    /\ dispatcher = "select"
    /\ ~closed
    /\ updates < MaxUpdates
    /\ \E u \in Updates : update' = <<u>>
    /\ updates' = updates + 1
    /\ dispatcher' = "acquire"
    /\ UNCHANGED << MaxWorkers, closed, workerPool, ctxDone, process, users, sent_books, tasks >>

\* the zero value of tgbotapi.Update: what a receive from a closed channel yields
ZeroUpdate == Update(FALSE, NoFrom, FALSE, "", 0, FALSE, "", << >>)

\* case update := <-updates, on the closed channel: the receive proceeds at
\* once with the zero value (bounded by the number of tasks of one run)
ReceiveClosed ==
    /\ process = "running"
    /\ dispatcher = "select"
    /\ closed
    /\ Len(tasks) < MaxUpdates
    /\ update' = << ZeroUpdate >>
    /\ dispatcher' = "acquire"
    /\ UNCHANGED << MaxWorkers, closed, workerPool, updates, ctxDone, process, users,
                    sent_books, tasks >>

\* the event source closes the channel updates for good
CloseSource ==
    /\ process = "running"
    /\ ~closed
    /\ closed' = TRUE
    /\ UNCHANGED << MaxWorkers, workerPool, updates, dispatcher, update, ctxDone,
                    process, users, sent_books, tasks >>

\* variant: a send to the full workerPool does not block, the update in hand
\* is dropped and the loop goes on
SpawnDropsWhenFull ==
    /\ process = "running"
    /\ dispatcher = "acquire"
    /\ IF CanSend(workerPool, MaxWorkers)
       THEN /\ workerPool' = workerPool + 1
            /\ tasks' = Append(tasks, NewTask(update[1]))
       ELSE UNCHANGED << workerPool, tasks >>
    /\ update' = << >>
    /\ dispatcher' = "select"
    /\ UNCHANGED << MaxWorkers, closed, updates, ctxDone, process, users, sent_books >>

\* workerPool <- struct{}{}; go func(update) {...}(update)
Spawn ==
    /\ process = "running"
    /\ dispatcher = "acquire"
    /\ CanSend(workerPool, MaxWorkers)
    /\ workerPool' = workerPool + 1
    /\ tasks' = Append(tasks, NewTask(update[1]))
    /\ update' = << >>
    /\ dispatcher' = "select"
    /\ UNCHANGED << MaxWorkers, closed, updates, ctxDone, process, users, sent_books >>

\* case <-ctx.Done(): return ctx.Err()
StartReturn ==
    /\ process = "running"
    /\ dispatcher = "select"
    /\ ctxDone
    /\ dispatcher' = "returned"
    /\ UNCHANGED << MaxWorkers, closed, workerPool, updates, update, ctxDone, process,
                    users, sent_books, tasks >>

\* the caller of Start cancels the context
Cancel ==
    /\ process = "running"
    /\ ~ctxDone
    /\ ctxDone' = TRUE
    /\ UNCHANGED << MaxWorkers, closed, workerPool, updates, dispatcher, update, process,
                    users, sent_books, tasks >>

\* main returns once Start has returned: the process ends
MainReturn ==
    /\ process = "running"
    /\ dispatcher = "returned"
    /\ process' = "exited"
    /\ UNCHANGED << MaxWorkers, closed, workerPool, updates, dispatcher, update, ctxDone,
                    users, sent_books, tasks >>

(***************************************************************************)
(* The per-update task: handleUpdate and the handlers it routes to.        *)
(***************************************************************************)
Running(i) == process = "running" /\ i \in TaskIds

\* the deferred function of handleUpdate after a panic: its log call reads
\* update.Message.From.ID and update.Message.Chat.ID
Recover(t) ==
    IF t.update.Message /\ t.update.From # NoFrom
    THEN [slogError(t, "recovered from panic in handleUpdate") EXCEPT !.pc = "returned"]
    ELSE [t EXCEPT !.pc = "panicking"]

\* update.Message is nil (line 197), or a handler reads the ID of a nil From
Panics(u) == ~u.Message \/ (u.Document /\ u.From = NoFrom)

HandleUpdatePanic(i) ==
    /\ Running(i)
    /\ tasks[i].pc = "handleUpdate"
    /\ Panics(tasks[i].update)
    /\ tasks' = [tasks EXCEPT ![i] = Recover(@)]
    /\ UNCHANGED << MaxWorkers, closed, workerPool, updates, dispatcher, update, ctxDone,
                    process, users, sent_books >>

\* handleUnsupportedMessage
HandleUnsupportedMessage(i) ==
    /\ Running(i)
    /\ tasks[i].pc = "handleUpdate"
    /\ LET u == tasks[i].update
       IN  u.Message /\ ~u.Document /\ ~u.IsCommand
    /\ tasks' = [tasks EXCEPT
                   ![i] = [sendMessage(@, NoticeUnsupportedMessage) EXCEPT !.pc = "returned"]]
    /\ UNCHANGED << MaxWorkers, closed, workerPool, updates, dispatcher, update, ctxDone,
                    process, users, sent_books >>

\* handleCommand: startCommand, helpCommand, invalidCommand
HandleCommand(i) ==
    /\ Running(i)
    /\ tasks[i].pc = "handleUpdate"
    /\ LET u == tasks[i].update
       IN  /\ u.Message /\ ~u.Document /\ u.IsCommand
           /\ u.Command # "set_kindle_email"
           /\ tasks' = [tasks EXCEPT
                          ![i] = [sendMessage(@, IF u.Command \in {"start", "help"}
                                                 THEN NoticeHello
                                                 ELSE NoticeUnknownCommand)
                                    EXCEPT !.pc = "returned"]]
    /\ UNCHANGED << MaxWorkers, closed, workerPool, updates, dispatcher, update, ctxDone,
                    process, users, sent_books >>

\* variant: setKindleEmailCommand stores the argument before it validates it
SetKindleEmailCommandWritesFirst(i) ==
    /\ Running(i)
    /\ tasks[i].pc = "handleUpdate"
    /\ LET u    == tasks[i].update
           args == u.CommandArguments
           v    == validateEmail(args)
       IN  /\ u.Message /\ ~u.Document /\ u.IsCommand
           /\ u.Command = "set_kindle_email"
           /\ IF args = << >>
              THEN /\ tasks' = [tasks EXCEPT
                        ![i] = [sendMessage(@, NoticeProvideEmail) EXCEPT !.pc = "returned"]]
                   /\ users' = users
              ELSE \E ok \in StoreOutcomes :
                     IF ok
                     THEN /\ users' = SetKindleEmail(u.From, args)
                          /\ tasks' = [tasks EXCEPT
                               ![i] = [sendMessage(@, IF v.err # "nil" THEN v.err
                                                      ELSE NoticeEmailSet)
                                         EXCEPT !.pc = "returned"]]
                     ELSE /\ users' = users
                          /\ tasks' = [tasks EXCEPT
                               ![i] = [slogError(sendMessage(@, NoticeSetEmailError),
                                                 "error setting kindle email")
                                         EXCEPT !.pc = "returned"]]
    /\ UNCHANGED << MaxWorkers, closed, workerPool, updates, dispatcher, update, ctxDone,
                    process, sent_books >>

\* handleCommand, case "set_kindle_email": setKindleEmailCommand
SetKindleEmailCommand(i) ==
    /\ Running(i)
    /\ tasks[i].pc = "handleUpdate"
    /\ LET u    == tasks[i].update
           args == u.CommandArguments
           v    == validateEmail(args)
       IN  /\ u.Message /\ ~u.Document /\ u.IsCommand
           /\ u.Command = "set_kindle_email"
           /\ IF args = << >>
              THEN /\ tasks' = [tasks EXCEPT
                        ![i] = [sendMessage(@, NoticeProvideEmail) EXCEPT !.pc = "returned"]]
                   /\ users' = users
              ELSE IF v.err # "nil"
              THEN /\ tasks' = [tasks EXCEPT
                        ![i] = [sendMessage(@, v.err) EXCEPT !.pc = "returned"]]
                   /\ users' = users
              ELSE \E ok \in StoreOutcomes :
                     IF ok
                     THEN /\ users' = SetKindleEmail(u.From, v.email)
                          /\ tasks' = [tasks EXCEPT
                               ![i] = [sendMessage(@, NoticeEmailSet) EXCEPT !.pc = "returned"]]
                     ELSE /\ users' = users
                          /\ tasks' = [tasks EXCEPT
                               ![i] = [slogError(sendMessage(@, NoticeSetEmailError),
                                                 "error setting kindle email")
                                         EXCEPT !.pc = "returned"]]
    /\ UNCHANGED << MaxWorkers, closed, workerPool, updates, dispatcher, update, ctxDone,
                    process, sent_books >>

(***************************************************************************)
(* Delivery pipeline: handleDocument.                                      *)
(***************************************************************************)
\* variant: handleDocument goes on after a failed destination lookup
ResolveDestinationIgnoresError(i) ==
    /\ Running(i)
    /\ tasks[i].pc = "handleUpdate"
    /\ LET u    == tasks[i].update
           rows == GetKindleEmail(u.From)
       IN  /\ u.Message /\ u.Document /\ u.From # NoFrom
           /\ \E ok \in StoreOutcomes :
                tasks' = [tasks EXCEPT ![i] =
                    IF ok /\ rows # {}
                    THEN [@ EXCEPT !.kindleEmail = (CHOOSE r \in rows : TRUE).kindle_email,
                                   !.pc = "validate"]
                    ELSE [sendMessage(@, NoticeSetEmailFirst) EXCEPT !.pc = "validate"]]
    /\ UNCHANGED << MaxWorkers, closed, workerPool, updates, dispatcher, update, ctxDone,
                    process, users, sent_books >>

\* kindleEmail, err := b.db.GetKindleEmail(ctx, update.Message.From.ID)
ResolveDestination(i) ==
    /\ Running(i)
    /\ tasks[i].pc = "handleUpdate"
    /\ LET u    == tasks[i].update
           rows == GetKindleEmail(u.From)
       IN  /\ u.Message /\ u.Document /\ u.From # NoFrom
           /\ \E ok \in StoreOutcomes :
                tasks' = [tasks EXCEPT ![i] =
                    IF ok /\ rows # {}
                    THEN [@ EXCEPT !.kindleEmail = (CHOOSE r \in rows : TRUE).kindle_email,
                                   !.pc = "validate"]
                    ELSE [sendMessage(@, NoticeSetEmailFirst) EXCEPT !.pc = "returned"]]
    /\ UNCHANGED << MaxWorkers, closed, workerPool, updates, dispatcher, update, ctxDone,
                    process, users, sent_books >>

\* variant: a declared size equal to the ceiling is rejected as well
TooLargeInclusive(fileSize) == fileSize >= MaxFileSize

\* update.Message.Document.FileSize > b.config.MaxFileSize
TooLarge(fileSize) == fileSize > MaxFileSize

\* the checks of the declared mime type and of the declared size
ValidatePayload(i) ==
    /\ Running(i)
    /\ tasks[i].pc = "validate"
    /\ LET u == tasks[i].update
       IN  tasks' = [tasks EXCEPT ![i] =
             IF u.MimeType \notin supportedMimeTypes
             THEN [sendMessage(@, NoticeUnsupportedType) EXCEPT !.pc = "returned"]
             ELSE IF TooLarge(u.FileSize)
             THEN [sendMessage(@, NoticeTooLarge) EXCEPT !.pc = "returned"]
             ELSE [sendMessage(@, NoticeDownloading) EXCEPT !.pc = "fetch"]]
    /\ UNCHANGED << MaxWorkers, closed, workerPool, updates, dispatcher, update, ctxDone,
                    process, users, sent_books >>

Min(a, b) == IF a < b THEN a ELSE b

\* variant: the body is read without io.LimitReader
LimitedReadUnlimited(stream, n, p) == Min(p, stream)

\* size of the buffer one Read of io.ReadAll offers
ReadBuffer == MaxFileSize \div 3 + 1

\* LimitedReader.Read: at most n more bytes are handed on, n the remaining limit
LimitedRead(stream, n, p) == IF n <= 0 THEN 0 ELSE Min(Min(p, n), stream)

\* io.ReadAll(io.LimitReader(resp.Body, MaxFileSize)): reads until a Read
\* returns no byte; the result is the number of bytes collected
RECURSIVE ReadAll(_, _, _)
ReadAll(stream, n, got) ==
    LET k == LimitedRead(stream, n, ReadBuffer)
    IN  IF k = 0 THEN got ELSE ReadAll(stream - k, n - k, got + k)

\* the backoff policy gives up (NextBackOff returns Stop)
GivesUp(attempts) == attempts >= MaxAttempts

\* downloadTelegramFile: GetFile or GetFileDirectURL fails, before any retry loop
FetchFileInfoFails(i) ==
    /\ Running(i)
    /\ tasks[i].pc = "fetch"
    /\ tasks[i].attempts = 0
    /\ tasks' = [tasks EXCEPT
                   ![i] = [sendMessage(slogError(@, "error downloading file"),
                                       NoticeDownloadError) EXCEPT !.pc = "returned"]]
    /\ UNCHANGED << MaxWorkers, closed, workerPool, updates, dispatcher, update, ctxDone,
                    process, users, sent_books >>

\* variant: handleDocument does not return after a failed download
FetchAttemptNoReturn(i) ==
    /\ Running(i)
    /\ tasks[i].pc = "fetch"
    /\ \E ok \in BOOLEAN, length \in StreamLengths, readOk \in BOOLEAN :
         tasks' = [tasks EXCEPT ![i] =
           LET t == [@ EXCEPT !.fetchCalled = TRUE, !.attempts = @ + 1]
           IN  IF ok /\ readOk
               THEN [sendMessage(t, NoticeDownloaded) EXCEPT
                        !.streamLength = length,
                        !.fileBytes = ReadAll(length, MaxFileSize, 0),
                        !.attempts = 0,
                        !.pc = "transmit"]
               ELSE IF ok \/ GivesUp(t.attempts)
               THEN [sendMessage(slogError(t, "error downloading file"),
                                 NoticeDownloadError) EXCEPT
                        !.attempts = 0, !.pc = "transmit"]
               ELSE t]
    /\ UNCHANGED << MaxWorkers, closed, workerPool, updates, dispatcher, update, ctxDone,
                    process, users, sent_books >>

\* one run of the operation of backoff.Retry in downloadTelegramFile
\* (b.httpClient.Get), and on success the read of the body
FetchAttempt(i) ==
    /\ Running(i)
    /\ tasks[i].pc = "fetch"
    /\ \E ok \in BOOLEAN, length \in StreamLengths, readOk \in BOOLEAN :
         tasks' = [tasks EXCEPT ![i] =
           LET t == [@ EXCEPT !.fetchCalled = TRUE, !.attempts = @ + 1]
           IN  IF ok /\ readOk
               THEN [sendMessage(t, NoticeDownloaded) EXCEPT
                        !.streamLength = length,
                        !.fileBytes = ReadAll(length, MaxFileSize, 0),
                        !.attempts = 0,
                        !.pc = "transmit"]
               ELSE IF ok \/ GivesUp(t.attempts)
               THEN [sendMessage(slogError(t, "error downloading file"),
                                 NoticeDownloadError) EXCEPT
                        !.pc = "returned"]
               ELSE t]
    /\ UNCHANGED << MaxWorkers, closed, workerPool, updates, dispatcher, update, ctxDone,
                    process, users, sent_books >>

\* variant: handleDocument does not return after a failed sendEmail
TransmitAttemptNoReturn(i) ==
    /\ Running(i)
    /\ tasks[i].pc = "transmit"
    /\ \E ok \in BOOLEAN :
         tasks' = [tasks EXCEPT ![i] =
           LET t == [@ EXCEPT !.dialed = TRUE, !.attempts = @ + 1]
           IN  IF ok
               THEN [t EXCEPT !.mail = << [To |-> t.kindleEmail, Size |-> t.fileBytes,
                                           Name |-> t.update.FileName] >>,
                              !.attempts = 0,
                              !.pc = "log"]
               ELSE IF GivesUp(t.attempts)
               THEN [sendMessage(slogError(t, "error sending email"),
                                 NoticeEmailError) EXCEPT
                        !.attempts = 0, !.pc = "log"]
               ELSE t]
    /\ UNCHANGED << MaxWorkers, closed, workerPool, updates, dispatcher, update, ctxDone,
                    process, users, sent_books >>

\* variant: sendEmail is given the address stored at the time of the send
TransmitAttemptRereads(i) ==
    /\ Running(i)
    /\ tasks[i].pc = "transmit"
    /\ \E ok \in BOOLEAN :
         tasks' = [tasks EXCEPT ![i] =
           LET t    == [@ EXCEPT !.dialed = TRUE, !.attempts = @ + 1]
               rows == GetKindleEmail(t.update.From)
           IN  IF ok
               THEN [t EXCEPT !.mail = << [To |-> IF rows = {} THEN t.kindleEmail
                                                  ELSE (CHOOSE r \in rows : TRUE).kindle_email,
                                           Size |-> t.fileBytes,
                                           Name |-> t.update.FileName] >>,
                              !.attempts = 0,
                              !.pc = "log"]
               ELSE IF GivesUp(t.attempts)
               THEN [sendMessage(slogError(t, "error sending email"),
                                 NoticeEmailError) EXCEPT
                        !.pc = "returned"]
               ELSE t]
    /\ UNCHANGED << MaxWorkers, closed, workerPool, updates, dispatcher, update, ctxDone,
                    process, users, sent_books >>

\* variant: when sendEmail has given up, handleDocument downloads the file anew
TransmitAttemptRefetches(i) ==
    /\ Running(i)
    /\ tasks[i].pc = "transmit"
    /\ \E ok \in BOOLEAN :
         tasks' = [tasks EXCEPT ![i] =
           LET t == [@ EXCEPT !.dialed = TRUE, !.attempts = @ + 1]
           IN  IF ok
               THEN [t EXCEPT !.mail = << [To |-> t.kindleEmail, Size |-> t.fileBytes,
                                           Name |-> t.update.FileName] >>,
                              !.attempts = 0,
                              !.pc = "log"]
               ELSE IF GivesUp(t.attempts)
               THEN [t EXCEPT !.attempts = 0, !.pc = "fetch"]
               ELSE t]
    /\ UNCHANGED << MaxWorkers, closed, workerPool, updates, dispatcher, update, ctxDone,
                    process, users, sent_books >>

\* one run of the operation of backoff.Retry in sendEmail (d.DialAndSend)
TransmitAttempt(i) ==
    /\ Running(i)
    /\ tasks[i].pc = "transmit"
    /\ \E ok \in BOOLEAN :
         tasks' = [tasks EXCEPT ![i] =
           LET t == [@ EXCEPT !.dialed = TRUE, !.attempts = @ + 1]
           IN  IF ok
               THEN [t EXCEPT !.mail = << [To |-> t.kindleEmail, Size |-> t.fileBytes,
                                           Name |-> t.update.FileName] >>,
                              !.attempts = 0,
                              !.pc = "log"]
               ELSE IF GivesUp(t.attempts)
               THEN [sendMessage(slogError(t, "error sending email"),
                                 NoticeEmailError) EXCEPT
                        !.pc = "returned"]
               ELSE t]
    /\ UNCHANGED << MaxWorkers, closed, workerPool, updates, dispatcher, update, ctxDone,
                    process, users, sent_books >>

\* variant: a failed logSentBook is reported to the user as a failed delivery
LogSentBookAborts(i) ==
    /\ Running(i)
    /\ tasks[i].pc = "log"
    /\ LET u == tasks[i].update
       IN  \E ok \in StoreOutcomes :
             /\ sent_books' = IF ok THEN logSentBook(u.From, u.FileName, u.FileSize)
                              ELSE sent_books
             /\ tasks' = [tasks EXCEPT ![i] =
                  [sendMessage(IF ok THEN @ ELSE slogError(@, "error logging sent book"),
                               IF ok THEN NoticeSent ELSE NoticeEmailError) EXCEPT
                     !.record = IF ok THEN Len(sent_books') ELSE 0,
                     !.pc = "returned"]]
    /\ UNCHANGED << MaxWorkers, closed, workerPool, updates, dispatcher, update, ctxDone,
                    process, users >>

\* b.db.logSentBook(...) and the final notice
LogSentBook(i) ==
    /\ Running(i)
    /\ tasks[i].pc = "log"
    /\ LET u == tasks[i].update
       IN  \E ok \in StoreOutcomes :
             /\ sent_books' = IF ok THEN logSentBook(u.From, u.FileName, u.FileSize)
                              ELSE sent_books
             /\ tasks' = [tasks EXCEPT ![i] =
                  [sendMessage(IF ok THEN @ ELSE slogError(@, "error logging sent book"),
                               NoticeSent) EXCEPT
                     !.record = IF ok THEN Len(sent_books') ELSE 0,
                     !.pc = "returned"]]
    /\ UNCHANGED << MaxWorkers, closed, workerPool, updates, dispatcher, update, ctxDone,
                    process, users >>

(***************************************************************************)
(* End of a task.                                                          *)
(***************************************************************************)
\* variant: the receive from workerPool is not deferred, a panic skips it
ReleaseNotDeferred(i) ==
    /\ Running(i)
    /\ tasks[i].pc \in {"returned", "panicking"}
    /\ workerPool > 0
    /\ workerPool' = IF tasks[i].pc = "returned" THEN workerPool - 1 ELSE workerPool
    /\ tasks' = [tasks EXCEPT ![i].released = IF tasks[i].pc = "returned" THEN @ + 1 ELSE @,
                              ![i].pc = IF @ = "returned" THEN "ended" ELSE "fatal"]
    /\ UNCHANGED << MaxWorkers, closed, updates, dispatcher, update, ctxDone, process,
                    users, sent_books >>

\* defer func() { <-workerPool }(): runs when handleUpdate returns and when a
\* panic unwinds through the goroutine
Release(i) ==
    /\ Running(i)
    /\ tasks[i].pc \in {"returned", "panicking"}
    /\ workerPool > 0
    /\ workerPool' = workerPool - 1
    /\ tasks' = [tasks EXCEPT ![i].released = @ + 1,
                              ![i].pc = IF @ = "returned" THEN "ended" ELSE "fatal"]
    /\ UNCHANGED << MaxWorkers, closed, updates, dispatcher, update, ctxDone, process,
                    users, sent_books >>

\* a panic that no deferred function recovered ends the process
Crash(i) ==
    /\ Running(i)
    /\ tasks[i].pc = "fatal"
    /\ process' = "crashed"
    /\ UNCHANGED << MaxWorkers, closed, workerPool, updates, dispatcher, update, ctxDone,
                    users, sent_books, tasks >>

TaskStep(i) ==
    \/ HandleUpdatePanic(i)
    \/ HandleUnsupportedMessage(i)
    \/ HandleCommand(i)
    \/ SetKindleEmailCommand(i)
    \/ ResolveDestination(i)
    \/ ValidatePayload(i)
    \/ FetchFileInfoFails(i)
    \/ FetchAttempt(i)
    \/ TransmitAttempt(i)
    \/ LogSentBook(i)
    \/ Release(i)
    \/ Crash(i)

Next ==
    \/ Receive
    \/ Spawn
    \/ StartReturn
    \/ Cancel
    \/ MainReturn
    \/ \E i \in 1..MaxUpdates : TaskStep(i)

\* the program as main runs it: nothing closes the channel updates
Spec == Init /\ [][Next]_vars

\* the program started on a database file kept from an earlier run (NewDb
\* creates the tables only if they do not exist): user 2 has a row in users
InitStored ==
    /\ MaxWorkers \in 1..MaxWorkersTried
    /\ workerPool = 0
    /\ updates = 0
    /\ closed = FALSE
    /\ dispatcher = "select"
    /\ update = << >>
    /\ ctxDone = FALSE
    /\ process = "running"
    /\ users = { [telegram_id |-> 2, kindle_email |-> ArgPlain2] }
    /\ sent_books = << >>
    /\ tasks = << >>

\* case update := <-updates, when user 1 sends no document and no
\* set-destination command during the run
ReceiveStored ==
    /\ Receive
    /\ LET u == update'[1]
       IN  u.From = 1 => (~u.Document /\ u.Command # "set_kindle_email")

NextStored ==
    \/ ReceiveStored
    \/ Spawn
    \/ StartReturn
    \/ Cancel
    \/ MainReturn
    \/ \E i \in 1..MaxUpdates : TaskStep(i)

SpecStored == InitStored /\ [][NextStored]_vars

\* the program with an event source that may close the channel updates
NextClosed ==
    \/ Next
    \/ CloseSource
    \/ ReceiveClosed

SpecClosed == Init /\ [][NextClosed]_vars

(***************************************************************************)
(* Properties.                                                             *)
(***************************************************************************)
\* the goroutine of task i has finished (normally, or unwound by a panic)
Finished(i) == tasks[i].pc \in {"ended", "fatal"}
\* task i holds the slot it was spawned with
HoldsSlot(i) == ~Finished(i)
\* task i is inside handleUpdate
InHandleUpdate(i) ==
    tasks[i].pc \in {"handleUpdate", "validate", "fetch", "transmit", "log"}

RECURSIVE SumReleased(_)
SumReleased(n) == IF n = 0 THEN 0 ELSE tasks[n].released + SumReleased(n - 1)

\* C1: for every MaxWorkers, in every reachable state at most MaxWorkers
\* tasks hold a concurrency slot, and so at most MaxWorkers updates are
\* inside handleUpdate at once.
C1_SlotsBounded ==
    /\ workerPool <= MaxWorkers
    /\ Cardinality({ i \in TaskIds : HoldsSlot(i) }) <= MaxWorkers
    /\ Cardinality({ i \in TaskIds : InHandleUpdate(i) }) <= MaxWorkers

\* all slots are taken and Start waits with a received update in hand
C1_Witness ==
    /\ dispatcher = "acquire"
    /\ workerPool = MaxWorkers
    /\ Cardinality({ i \in TaskIds : InHandleUpdate(i) }) = MaxWorkers

\* C2: every slot acquired for a task is released exactly once, when the
\* task ends, whether handleUpdate returned or a panic unwound the goroutine:
\* never twice, never left held by a finished task, never released earlier.
C2_ReleasedExactlyOnce ==
    /\ \A i \in TaskIds :
         /\ tasks[i].released <= 1
         /\ Finished(i) <=> tasks[i].released = 1
    /\ workerPool = Len(tasks) - SumReleased(Len(tasks))

\* one task has ended by return and one by a panic, each with its slot released
C2_Witness ==
    \E i, j \in TaskIds :
        /\ tasks[i].pc = "ended" /\ tasks[i].released = 1
        /\ tasks[j].pc = "fatal" /\ tasks[j].released = 1

\* C3: for every inbound update, an unexpected failure inside its task is
\* caught at the task boundary and logged; it never ends the dispatch loop
\* or the process.
C3_PanicContained == process # "crashed"

\* task i handles a Payload event that carries its sender
IsDocumentTask(i) ==
    LET u == tasks[i].update IN u.Message /\ u.Document /\ u.From # NoFrom
\* the handler of task i has returned to the goroutine
HandlerReturned(i) == tasks[i].pc \in {"returned", "ended"}
\* the Transmit step of task i succeeded
TransmitSucceeded(i) == tasks[i].mail # << >>
\* a DeliveryRecord was created for the event of task i
HasRecord(i) == tasks[i].record # 0
\* text is among the notices sent by task i
Noticed(i, text) == \E k \in DOMAIN tasks[i].notices : tasks[i].notices[k] = text
\* msg is among the operator log entries of task i
Slogged(i, msg) == \E k \in DOMAIN tasks[i].slog : tasks[i].slog[k] = msg
\* every row of sent_books is the record of exactly one task
RowsOwned ==
    \A k \in 1..Len(sent_books) :
        /\ sent_books[k].id = k
        /\ Cardinality({ i \in TaskIds : tasks[i].record = k }) = 1

\* C4 (as claimed): for every Payload event, a DeliveryRecord exists if and
\* only if the Transmit step of the event succeeded.
C4_RecordIffTransmitted ==
    \A i \in TaskIds :
        /\ HasRecord(i) => TransmitSucceeded(i)
        /\ (IsDocumentTask(i) /\ HandlerReturned(i))
              => (HasRecord(i) <=> TransmitSucceeded(i))

\* C4 (amended): a DeliveryRecord of an event is created only if the Transmit
\* step of the event succeeded, never before and never after a terminal
\* failure; after a successful Transmit exactly one record is created, unless
\* the audit-log write fails, and then none is.
C4_RecordOnlyAfterTransmit ==
    /\ RowsOwned
    /\ \A i \in TaskIds :
         /\ HasRecord(i) =>
              /\ TransmitSucceeded(i) /\ HandlerReturned(i)
              /\ tasks[i].record \in 1..Len(sent_books)
              /\ sent_books[tasks[i].record].telegram_id = tasks[i].update.From
         /\ (HandlerReturned(i) /\ TransmitSucceeded(i)) =>
              (HasRecord(i) <=> ~Slogged(i, "error logging sent book"))

\* Transmit succeeded and the task has ended, yet the event has no record
C4_Witness ==
    \E i \in TaskIds :
        /\ IsDocumentTask(i) /\ tasks[i].pc = "ended"
        /\ TransmitSucceeded(i) /\ ~HasRecord(i)

\* the declared mime type is off the allow-list, the declared size over the ceiling
MimeRejected(u) == u.MimeType \notin supportedMimeTypes
SizeRejected(u) == u.FileSize > MaxFileSize

\* C5 (as claimed): a Payload event with a mime type off the allow-list or a
\* declared size over MaxFileSize never reaches Fetch or Transmit, and the
\* user gets the matching fixed notice; a size equal to the ceiling passes.
C5_InvalidGetsMatchingNotice ==
    \A i \in TaskIds :
        LET u == tasks[i].update
        IN  (IsDocumentTask(i) /\ (MimeRejected(u) \/ SizeRejected(u))) =>
              /\ ~tasks[i].fetchCalled /\ ~tasks[i].dialed
              /\ HandlerReturned(i) =>
                   \/ MimeRejected(u) /\ Noticed(i, NoticeUnsupportedType)
                   \/ SizeRejected(u) /\ Noticed(i, NoticeTooLarge)

\* C5 (amended): such an event never reaches Fetch or Transmit; when its
\* destination was resolved the user gets the matching fixed notice (the
\* unsupported-type notice when both apply), otherwise the notice of
\* ResolveDestination and no validation notice. An event with an allow-listed
\* type and a declared size up to and including the ceiling is not rejected.
C5_InvalidNeverFetched ==
    \A i \in TaskIds :
        LET u == tasks[i].update
            t == tasks[i]
        IN  IsDocumentTask(i) =>
              /\ (MimeRejected(u) \/ SizeRejected(u)) =>
                   /\ ~t.fetchCalled /\ ~t.dialed /\ t.mail = << >>
                   /\ t.pc \notin {"fetch", "transmit", "log"}
                   /\ HandlerReturned(i) =>
                        t.notices =
                          IF t.kindleEmail = << >> THEN << NoticeSetEmailFirst >>
                          ELSE IF MimeRejected(u) THEN << NoticeUnsupportedType >>
                          ELSE << NoticeTooLarge >>
              /\ ~(MimeRejected(u) \/ SizeRejected(u)) =>
                   /\ ~Noticed(i, NoticeUnsupportedType) /\ ~Noticed(i, NoticeTooLarge)
                   /\ (t.kindleEmail # << >> /\ t.pc # "validate") =>
                        t.notices[1] = NoticeDownloading

\* a resolved event over the ceiling has ended with the size notice, no call made
C5_Witness ==
    \E i \in TaskIds :
        /\ IsDocumentTask(i) /\ tasks[i].pc = "ended"
        /\ tasks[i].update.FileSize = MaxFileSize + 1
        /\ tasks[i].notices = << NoticeTooLarge >>
        /\ ~tasks[i].fetchCalled

\* C6: for a payload that passed validation, the bytes returned by Fetch
\* number min(actual stream length, MaxFileSize): a longer stream is cut at
\* exactly MaxFileSize, whatever the declared size was.
C6_FetchLength ==
    \A i \in TaskIds :
        (tasks[i].pc \in {"transmit", "log"} \/ TransmitSucceeded(i)) =>
            /\ tasks[i].fileBytes <= MaxFileSize
            /\ tasks[i].fileBytes =
                 IF tasks[i].streamLength > MaxFileSize
                 THEN MaxFileSize ELSE tasks[i].streamLength

\* a stream longer than the ceiling was fetched and cut at the ceiling
C6_Witness ==
    \E i \in TaskIds :
        /\ tasks[i].pc = "transmit"
        /\ tasks[i].streamLength > MaxFileSize
        /\ tasks[i].update.FileSize <= MaxFileSize
        /\ tasks[i].fileBytes = MaxFileSize

\* C7: in every reachable state every destination stored in the users table
\* itself ends with "@kindle.com".
C7_StoredAddressHasSuffix ==
    \A r \in users : HasSuffix(r.kindle_email, KindleSuffix)

\* the rows of the users table for user id
RowsOf(table, id) == { r \in table : r.telegram_id = id }

\* task i completes a set-destination command with a successful write
SetsDestination(i) ==
    /\ i \in TaskIds
    /\ tasks[i].pc = "handleUpdate"
    /\ tasks'[i].pc = "returned"
    /\ tasks'[i].notices = << NoticeEmailSet >>

\* C8: setDestination is an upsert keyed by user id: there is at most one
\* row per user id; a successful call leaves exactly one row for its user,
\* holding the address of that call (so the last call wins), and leaves the
\* rows of all other users as they were; nothing else changes the table.
C8_Upsert ==
    /\ [](\A id \in Users : Cardinality(RowsOf(users, id)) <= 1)
    /\ [][ /\ \A i \in TaskIds : SetsDestination(i) =>
                LET u == tasks[i].update
                IN  /\ RowsOf(users', u.From) =
                          { [telegram_id |-> u.From, kindle_email |-> u.CommandArguments] }
                    /\ \A id \in Users \ {u.From} : RowsOf(users', id) = RowsOf(users, id)
           /\ users' # users => \E i \in TaskIds : SetsDestination(i)
         ]_vars

\* two commands of one user with different addresses were both stored, and
\* one row is left
C8_Witness ==
    \E i, j \in TaskIds :
        /\ tasks[i].update.From = tasks[j].update.From
        /\ tasks[i].update.CommandArguments # tasks[j].update.CommandArguments
        /\ tasks[i].notices = << NoticeEmailSet >>
        /\ tasks[j].notices = << NoticeEmailSet >>
        /\ Cardinality(users) = 1

\* C9: when Fetch and Transmit of a Payload event succeed and the audit-log
\* write fails, the user still gets the "delivered" notice and no failure
\* notice, no DeliveryRecord is created for the event, and the task ends
\* normally.
C9_LogFailureStillDelivered ==
    \A i \in TaskIds :
        Slogged(i, "error logging sent book") =>
            /\ TransmitSucceeded(i)
            /\ HandlerReturned(i)
            /\ tasks[i].notices = << NoticeDownloading, NoticeDownloaded, NoticeSent >>
            /\ ~HasRecord(i)
            /\ RowsOwned

\* a task whose audit-log write failed has ended
C9_Witness ==
    \E i \in TaskIds :
        /\ tasks[i].pc = "ended"
        /\ TransmitSucceeded(i)
        /\ Slogged(i, "error logging sent book")
        /\ sent_books = << >>

\* the last notice task i has sent
LastNotice(i) == tasks[i].notices[Len(tasks[i].notices)]

\* C10: when the Fetch step or the Transmit step of a Payload event fails,
\* the pipeline stops there: the user gets the fixed failure notice of that
\* step and never the "delivered" notice, no later step runs, no
\* DeliveryRecord is created, and no step of the event changes the users table.
C10_FailureStopsPipeline ==
    /\ [](\A i \in TaskIds :
            /\ Slogged(i, "error downloading file") =>
                 /\ HandlerReturned(i)
                 /\ tasks[i].notices = << NoticeDownloading, NoticeDownloadError >>
                 /\ ~tasks[i].dialed /\ ~TransmitSucceeded(i) /\ ~HasRecord(i)
            /\ Slogged(i, "error sending email") =>
                 /\ HandlerReturned(i)
                 /\ tasks[i].notices =
                      << NoticeDownloading, NoticeDownloaded, NoticeEmailError >>
                 /\ ~TransmitSucceeded(i) /\ ~HasRecord(i)
            /\ (IsDocumentTask(i) /\ HandlerReturned(i) /\ ~TransmitSucceeded(i)) =>
                 /\ ~Noticed(i, NoticeSent)
                 /\ ~HasRecord(i))
    /\ [][ \A i \in TaskIds :
             (IsDocumentTask(i) /\ tasks'[i] # tasks[i]) => users' = users ]_vars

\* Fetch has failed on every attempt for a configured user and the task has ended
C10_Witness ==
    \E i \in TaskIds :
        /\ tasks[i].pc = "ended"
        /\ tasks[i].attempts = MaxAttempts
        /\ LastNotice(i) = NoticeDownloadError
        /\ RowsOf(users, tasks[i].update.From) # {}

\* task i looks its destination up while its user has no row in users
ResolvesUnconfigured(i) ==
    /\ i \in TaskIds
    /\ IsDocumentTask(i)
    /\ tasks[i].pc = "handleUpdate"
    /\ tasks'[i] # tasks[i]
    /\ RowsOf(users, tasks[i].update.From) = {}

\* C11: a Payload event from a user who has no UserConfig halts at
\* ResolveDestination, whatever its mime type and declared size: the user
\* gets the "configure first" notice and nothing else, and no validation
\* notice, fetch, transmit or DeliveryRecord follows.
C11_UnconfiguredHalts ==
    /\ [][ \A i \in TaskIds : ResolvesUnconfigured(i) =>
             /\ tasks'[i].pc = "returned"
             /\ tasks'[i].notices = << NoticeSetEmailFirst >> ]_vars
    /\ [](\A i \in TaskIds :
            Noticed(i, NoticeSetEmailFirst) =>
              /\ HandlerReturned(i)
              /\ tasks[i].notices = << NoticeSetEmailFirst >>
              /\ ~tasks[i].fetchCalled /\ ~tasks[i].dialed
              /\ ~TransmitSucceeded(i) /\ ~HasRecord(i))

\* an unconfigured user's acceptable document and an unconfigured user's
\* unacceptable document have both ended with the "configure first" notice
C11_Witness ==
    /\ users = {}
    /\ \E i, j \in TaskIds :
         /\ tasks[i].pc = "ended" /\ tasks[j].pc = "ended"
         /\ tasks[i].update.MimeType \in supportedMimeTypes
         /\ tasks[i].update.FileSize <= MaxFileSize
         /\ tasks[j].update.MimeType \notin supportedMimeTypes
         /\ tasks[i].notices = << NoticeSetEmailFirst >>
         /\ tasks[j].notices = << NoticeSetEmailFirst >>

\* C12: once the cancellation signal has fired, the dispatch loop receives
\* no further update from the source and spawns no further task.
C12_NoPullAfterCancel ==
    [][ ctxDone => (updates' = updates /\ Len(tasks') = Len(tasks)) ]_vars

\* C13: tasks already spawned when the cancellation signal fires are not
\* cancelled by it: no task is cut off before it has ended, and every step
\* of an in-flight task can still reach the outcome it can reach without
\* cancellation (a resolved destination, a logged delivery).
C13_InFlightUnaffectedByCancel ==
    /\ process = "exited" => \A i \in TaskIds : Finished(i)
    /\ \A i \in TaskIds :
         (process = "running" /\ tasks[i].pc = "log") =>
             ENABLED (LogSentBook(i) /\ tasks'[i].record # 0)
    /\ \A i \in TaskIds :
         (/\ process = "running" /\ tasks[i].pc = "handleUpdate"
          /\ IsDocumentTask(i)
          /\ RowsOf(users, tasks[i].update.From) # {}) =>
             ENABLED (ResolveDestination(i) /\ tasks'[i].pc = "validate")

\* C14: when the cancellation signal has fired, Start eventually returns,
\* whether it waits for an update or waits for a slot with an update in
\* hand: as long as Start has not returned, the program can take a step.
C14_StartReturnsAfterCancel ==
    (ctxDone /\ dispatcher # "returned") => ENABLED Next

\* C15: when the event source is permanently closed, the dispatch loop
\* stops: Start receives nothing more and spawns no task for an update that
\* the source never produced.
C15_ClosedSourceStopsLoop ==
    closed => Len(tasks) + Len(update) <= updates

\* C16: the Fetch step and the Transmit step end in failure only after the
\* retry policy is exhausted, never after a single failed attempt: a task
\* that got the download-failure or the email-failure notice has made as
\* many attempts of that step as the backoff policy allows.
C16_FailsOnlyAfterRetries ==
    \A i \in TaskIds :
        (Noticed(i, NoticeDownloadError) \/ Noticed(i, NoticeEmailError)) =>
            tasks[i].attempts = MaxAttempts

\* the notices of the Delivery Pipeline
PipelineNotices ==
    { NoticeSetEmailFirst, NoticeUnsupportedType, NoticeTooLarge, NoticeDownloading,
      NoticeDownloadError, NoticeDownloaded, NoticeEmailError, NoticeSent }
\* task i ran a step of the Delivery Pipeline after the lookup of the destination
InPipeline(i) ==
    \/ tasks[i].fetchCalled \/ tasks[i].dialed \/ HasRecord(i)
    \/ \E k \in DOMAIN tasks[i].notices : tasks[i].notices[k] \in PipelineNotices

\* C17: routing is a total function of the event. When the task of an event
\* has ended: an event with a document has only notices of the Delivery
\* Pipeline; an event with a command and no document has exactly one notice,
\* of the command router, and no trace of the pipeline; every other event has
\* exactly the one fixed "unsupported" notice and no trace of the pipeline.
C17_RoutingTotal ==
    \A i \in TaskIds : Finished(i) =>
        LET u == tasks[i].update
        IN  IF u.Message /\ u.Document
            THEN \A k \in DOMAIN tasks[i].notices : tasks[i].notices[k] \in PipelineNotices
            ELSE IF u.Message /\ u.IsCommand
            THEN /\ ~InPipeline(i)
                 /\ Len(tasks[i].notices) = 1
                 /\ tasks[i].notices[1] # NoticeUnsupportedMessage
            ELSE /\ ~InPipeline(i)
                 /\ tasks[i].notices = << NoticeUnsupportedMessage >>

\* the constant messages of the program: the string literals that the
\* handlers pass to sendMessage, and the constant text of the error that
\* validateEmail makes for an address that is not a kindle address
FixedNotices ==
    PipelineNotices \cup
    { NoticeUnsupportedMessage, NoticeProvideEmail, NoticeSetEmailError, NoticeEmailSet,
      NoticeUnknownCommand, NoticeHello,
      "email address is not a kindle email address" }

\* C18: no raw error text is sent to the user: every notice of every task is
\* one of the constant messages of the program, whatever the error behind it.
C18_OnlyFixedNotices ==
    \A i \in TaskIds : \A k \in DOMAIN tasks[i].notices :
        tasks[i].notices[k] \in FixedNotices

\* C19: every spawned task eventually ends and gives its slot back: a task
\* that has not ended can always take a further step (its retries are
\* bounded by GivesUp, so a task that keeps taking steps ends).
C19_TasksCanEnd ==
    \A i \in TaskIds : Finished(i) \/ ENABLED TaskStep(i)

\* C20: backpressure loses nothing. Every update received from the source
\* is either the one update that Start holds or the update of exactly one
\* task; while Start holds an update it receives no other, and while all
\* slots are taken it keeps the update and spawns nothing; a task is spawned
\* only for the update held, which leaves Start's hand by that step, and the
\* update of a task never changes.
C20_BackpressureLosesNothing ==
    /\ [](/\ updates = Len(tasks) + Len(update)
          /\ Len(update) = (IF dispatcher = "acquire" THEN 1 ELSE 0))
    /\ [][ /\ dispatcher = "acquire" => updates' = updates
           /\ (dispatcher = "acquire" /\ workerPool = MaxWorkers) =>
                  (update' = update /\ Len(tasks') = Len(tasks))
           /\ Len(tasks') # Len(tasks) =>
                  /\ dispatcher = "acquire"
                  /\ tasks' = Append(tasks, NewTask(update[1]))
                  /\ update' = << >>
           /\ \A i \in TaskIds : tasks'[i].update = tasks[i].update ]_vars

\* all slots are taken for the whole run of a handler: the handler of a task
\* has returned, its slot is not yet released, and Start still holds the last
\* update it received
C20_Witness ==
    /\ dispatcher = "acquire"
    /\ workerPool = MaxWorkers
    /\ Len(update) = 1
    /\ updates = MaxUpdates
    /\ Len(tasks) = MaxUpdates - 1
    /\ \E i \in TaskIds : tasks[i].pc = "returned"

\* position of a task in the order of the steps of handleDocument
StepRank(pc) ==
    CASE pc = "handleUpdate" -> 0
      [] pc = "validate"     -> 1
      [] pc = "fetch"        -> 2
      [] pc = "transmit"     -> 3
      [] pc = "log"          -> 4
      [] pc = "returned"     -> 5
      [] pc = "panicking"    -> 5
      [] pc = "ended"        -> 6
      [] pc = "fatal"        -> 6

\* C21: within one Payload event the steps run in the order
\* ResolveDestination, ValidatePayload, Fetch, Transmit, Log, with no
\* backward edge and no step entered twice: a task leaves a step only for a
\* later one, enters each step from the step before it, enters Transmit
\* only by a successful Fetch (the "download successful" notice is sent in
\* that step), enters Log only by a successful Transmit (the mail is sent in
\* that step), and sends "delivered" only in the step that ends Log, after
\* Transmit succeeded.
C21_StepsInOrder ==
    /\ [][ \A i \in TaskIds :
             LET pc == tasks[i].pc
                 to == tasks'[i].pc
             IN  /\ to # pc => StepRank(to) > StepRank(pc)
                 /\ (to = "validate" /\ pc # to) => pc = "handleUpdate"
                 /\ (to = "fetch" /\ pc # to) => pc = "validate"
                 /\ (to = "transmit" /\ pc # to) =>
                        /\ pc = "fetch"
                        /\ tasks'[i].notices = Append(tasks[i].notices, NoticeDownloaded)
                 /\ (to = "log" /\ pc # to) =>
                        /\ pc = "transmit"
                        /\ tasks[i].mail = << >> /\ Len(tasks'[i].mail) = 1
                 /\ (pc = "log" /\ to # pc) =>
                        /\ to = "returned"
                        /\ tasks'[i].notices = Append(tasks[i].notices, NoticeSent)
                 /\ (~Noticed(i, NoticeSent) /\ Noticed(i, NoticeSent)') =>
                        (pc = "log" /\ TransmitSucceeded(i)) ]_vars
    /\ [](\A i \in TaskIds :
             /\ Len(tasks[i].mail) <= 1
             /\ tasks[i].pc = "log" => TransmitSucceeded(i)
             /\ Noticed(i, NoticeSent) =>
                    /\ TransmitSucceeded(i) /\ HandlerReturned(i)
                    /\ tasks[i].notices =
                           << NoticeDownloading, NoticeDownloaded, NoticeSent >>)

\* an event went through every step: its task has ended with the notices of
\* Fetch and of the delivery, the mail sent and the DeliveryRecord written
C21_Witness ==
    \E i \in TaskIds :
        /\ tasks[i].pc = "ended"
        /\ tasks[i].notices = << NoticeDownloading, NoticeDownloaded, NoticeSent >>
        /\ tasks[i].fetchCalled /\ tasks[i].dialed
        /\ Len(tasks[i].mail) = 1 /\ HasRecord(i)

\* the row of users that holds the destination of user id, as a set
DestinationOf(id) == { r.kindle_email : r \in RowsOf(users, id) }

\* C22: the destination of a delivery is read once, at ResolveDestination.
\* The address a task holds is the one stored for its user at the step that
\* read it; from then on no step changes it, whatever other tasks store for
\* the same user meanwhile, and the mail of the event goes to that address.
C22_DestinationReadOnce ==
    /\ [][ \A i \in TaskIds :
             /\ (tasks[i].pc = "handleUpdate" /\ tasks'[i].pc = "validate") =>
                    DestinationOf(tasks[i].update.From) = { tasks'[i].kindleEmail }
             /\ tasks[i].pc # "handleUpdate" =>
                    tasks'[i].kindleEmail = tasks[i].kindleEmail ]_vars
    /\ [](\A i \in TaskIds :
             TransmitSucceeded(i) => tasks[i].mail[1].To = tasks[i].kindleEmail)

\* a delivery went to the address read at the start although a concurrent
\* set-destination command of the same user has stored another one since
C22_Witness ==
    \E i, j \in TaskIds :
        /\ TransmitSucceeded(i)
        /\ tasks[j].update.From = tasks[i].update.From
        /\ tasks[j].notices = << NoticeEmailSet >>
        /\ DestinationOf(tasks[i].update.From) # { tasks[i].mail[1].To }

\* the event of task i is a set-destination command whose argument is empty
\* or is rejected by validateEmail
IsInvalidSet(i) ==
    LET u == tasks[i].update
    IN  /\ u.Message /\ ~u.Document /\ u.IsCommand
        /\ u.Command = "set_kindle_email"
        /\ (u.CommandArguments = << >> \/ validateEmail(u.CommandArguments).err # "nil")
\* the one notice that rejects the argument of the command of task i
RejectionNotice(i) ==
    IF tasks[i].update.CommandArguments = << >>
    THEN NoticeProvideEmail
    ELSE validateEmail(tasks[i].update.CommandArguments).err

\* C23: a set-destination command whose argument is empty or fails
\* validation writes nothing: the step that handles it leaves the users
\* table (a destination stored earlier included) and the delivery log as
\* they were, and the only notice of its task is the rejection, never the
\* success notice.
C23_InvalidSetWritesNothing ==
    /\ [][ \A i \in TaskIds :
             (IsInvalidSet(i) /\ tasks'[i] # tasks[i]) =>
                 (users' = users /\ sent_books' = sent_books) ]_vars
    /\ [](\A i \in TaskIds :
             (IsInvalidSet(i) /\ tasks[i].pc # "handleUpdate") =>
                 /\ tasks[i].notices = << RejectionNotice(i) >>
                 /\ RejectionNotice(i) # NoticeEmailSet
                 /\ ~HasRecord(i))

\* a user who stored a destination sent a command with an argument that
\* validateEmail rejects: the command ended rejected and the stored
\* destination is still there
C23_Witness ==
    \E i, j \in TaskIds :
        /\ tasks[j].update.From = tasks[i].update.From
        /\ tasks[j].notices = << NoticeEmailSet >>
        /\ IsInvalidSet(i) /\ tasks[i].pc = "ended"
        /\ tasks[i].update.CommandArguments # << >>
        /\ DestinationOf(tasks[i].update.From) = { tasks[j].update.CommandArguments }

\* C24: a Payload event of a user who has a row in users never gets the
\* "configure first" notice: no step of a task whose user has a row at that
\* step sends it, whether the lookup succeeds or fails, before and after
\* cancellation.
C24_ConfiguredNeverToldToConfigure ==
    [][ \A i \in TaskIds :
          (IsDocumentTask(i) /\ RowsOf(users, tasks[i].update.From) # {}) =>
              tasks'[i].notices # Append(tasks[i].notices, NoticeSetEmailFirst) ]_vars

\* C25: every DeliveryRecord describes what was delivered: the row written
\* for an event holds the user id and the file name of the event, and as
\* file size the number of bytes that were handed to sendEmail for it.
C25_RecordDescribesDelivery ==
    \A i \in TaskIds : HasRecord(i) =>
        LET row == sent_books[tasks[i].record]
        IN  /\ row.telegram_id = tasks[i].update.From
            /\ row.book_name = tasks[i].update.FileName
            /\ row.file_size = tasks[i].mail[1].Size

====
